---- MODULE Spec2Model ----
(***************************************************************************)
(* A model of the ECHOES translation package: the TranslationRegistry of   *)
(* registry.py (named sources, a lazily rebuilt merged cache) and the      *)
(* EchoesService of services/echoes_service.py (dot-path lookup, fallback  *)
(* to the default locale, interpolation, plural-form selection).           *)
(*                                                                         *)
(* Python strings are sequences of one-character strings, so that split,   *)
(* startswith, the marker "[" + key + "]" and the placeholder regex are    *)
(* computed and not assumed.  A JSON value is a record [kind, val]: kind   *)
(* "str" (val a string), "dict" (val a function from keys to JSON values), *)
(* "num", "list" or "null".  A Python dict is a function; the order of its *)
(* keys matters only for self._modules, which is a sequence.               *)
(***************************************************************************)
EXTENDS Integers, Sequences, FiniteSets, TLC

VARIABLES
    modules,              \* TranslationRegistry._modules, in insertion order
    merged_translations,  \* TranslationRegistry._merged_translations
    dirty,                \* TranslationRegistry._dirty
    svc_translations,     \* EchoesService._translations
    loaded_locales,       \* EchoesService._loaded_locales
    default_locale,       \* EchoesService._default_locale
    registered_modules,   \* EchoesService._registered_modules
    op,                   \* the last call: [name, args]
    ret,                  \* what the last call returned: [kind, val]
    lookups,              \* the keys the last call passed to translate, in order
    rebuilds,             \* how many times _rebuild_cache has run (saturating)
    ops,                  \* how many calls have changed self._modules (bounded)
    trip,                 \* a register / unregister / register round trip, observed
    threads               \* per thread: where it is in the registry method it runs

vars == <<modules, merged_translations, dirty, svc_translations, loaded_locales,
          default_locale, registered_modules, op, ret, lookups, rebuilds, ops, trip,
          threads>>

service_vars == <<svc_translations, loaded_locales, default_locale, registered_modules>>
registry_state == <<modules, merged_translations, dirty, rebuilds, ops, trip, threads>>

----------------------------------------------------------------------------
(* Bounds of the model.                                                    *)

\* _rebuild_cache runs are counted up to this number.
MaxRebuilds == 2
\* The registry is explored up to this many registering, unregistering and
\* reloading calls.
MaxOps == 3
\* _get_plural_form is applied to every count in -MaxNegCount .. MaxCount.
MaxCount == 125
MaxNegCount == 2
\* translate_plural is called with every count in 0 .. MaxPluralCount.
MaxPluralCount == 2
\* _get_nested_value is applied to every key of 1 .. MaxSegments segments.
MaxSegments == 3
\* _interpolate is applied to every template of 1 .. MaxTokens tokens.
MaxTokens == 2

----------------------------------------------------------------------------
(* JSON values and Python dicts.                                           *)

EmptyDict == <<>>

StrV(s) == [kind |-> "str", val |-> s]
DictV(d) == [kind |-> "dict", val |-> d]
NumV(n) == [kind |-> "num", val |-> n]
ListV == [kind |-> "list", val |-> 0]
NullV == [kind |-> "null", val |-> 0]
NoneRet == [kind |-> "none", val |-> 0]
BoolRet(b) == [kind |-> "bool", val |-> b]

\* dict.get(key, {}) of a dict whose values are dicts
GetOrEmpty(d, key) == IF key \in DOMAIN d THEN d[key] ELSE EmptyDict

\* d.update(e): every top-level entry of e replaces d's entry of that key
Update(d, e) ==
    [key \in (DOMAIN d) \cup (DOMAIN e) |-> IF key \in DOMAIN e THEN e[key] ELSE d[key]]

\* d with d[key] = value
SetItem(d, key, value) ==
    [x \in (DOMAIN d) \cup {key} |-> IF x = key THEN value ELSE d[x]]

----------------------------------------------------------------------------
(* The strings of the model.                                               *)

en == <<"e", "n">>
pt == <<"p", "t">>
fr == <<"f", "r">>
ru == <<"r", "u">>
ar == <<"a", "r">>
en_US == <<"e", "n", "-", "U", "S">>
fr_CA == <<"f", "r", "-", "C", "A">>
ru_RU == <<"r", "u", "-", "R", "U">>
ar_EG == <<"a", "r", "-", "E", "G">>
xx == <<"x", "x">>

k == <<"k">>
g == <<"g">>
t == <<"t">>
u == <<"u">>

v1 == <<"v", "1">>
v2 == <<"v", "2">>
hi == <<"h", "i">>
yo == <<"y", "o">>
f1 == <<"f", "1">>
ft == <<"f", "t">>
fu == <<"f", "u">>
fp == <<"f", "p">>

----------------------------------------------------------------------------
(* TranslationRegistry (registry.py): the inputs.                          *)

ModuleNames == {"m1", "m2", "m3"}
RegistryLocales == {en}

\* translations_path=None
NoPath == "None"

\* The bundle directories on disk: path -> locale -> the {locale}.json file,
\* parsed (ok) or not parseable (json.load raises, the file is skipped).
\* A path outside the domain does not exist.
GoodFile(d) == [ok |-> TRUE, data |-> d]
BadFile == [ok |-> FALSE, data |-> EmptyDict]
BundleDirs ==
    "p1" :> ((en :> GoodFile((k :> StrV(f1)) @@ (g :> DictV(t :> StrV(ft)))))
             @@ (pt :> GoodFile(k :> StrV(fp)))
             @@ (fr :> BadFile))
Paths == {NoPath, "p1", "gone"}
PathExists(path) == path \in DOMAIN BundleDirs

\* The dicts passed to register_translations.
InlineDicts ==
    { (k :> StrV(v1)) @@ (g :> DictV(t :> StrV(hi))),
      (k :> StrV(v2)) @@ (g :> DictV(u :> StrV(yo))) }

----------------------------------------------------------------------------
(* TranslationRegistry: the operations on self._modules.                   *)

ModuleTranslation(name, path) ==
    [module_name |-> name, translations_path |-> path, translations |-> EmptyDict]

\* the position of module_name in self._modules, 0 when it is not a key
IndexOf(mods, name) ==
    IF \E i \in 1..Len(mods) : mods[i].module_name = name
    THEN CHOOSE i \in 1..Len(mods) : mods[i].module_name = name
    ELSE 0

HasModule(mods, name) == IndexOf(mods, name) # 0

\* _load_module_translations: every {locale}.json of the module's directory
\* that parses is merged into module.translations[locale]
LoadModuleTranslations(module) ==
    IF module.translations_path = NoPath \/ ~PathExists(module.translations_path)
    THEN module
    ELSE LET dir == BundleDirs[module.translations_path]
             loaded == {locale \in DOMAIN dir : dir[locale].ok}
             old == module.translations
         IN [module EXCEPT !.translations =
                [locale \in (DOMAIN old) \cup loaded |->
                    IF locale \in loaded
                    THEN Update(GetOrEmpty(old, locale), dir[locale].data)
                    ELSE old[locale]]]

\* register_module
RegisterModuleOp(mods, name, path) ==
    LET i == IndexOf(mods, name)
        entered ==
            IF i # 0
            THEN IF path # NoPath
                 THEN [mods EXCEPT ![i].translations_path = path]
                 ELSE mods
            ELSE Append(mods, ModuleTranslation(name, path))
        j == IndexOf(entered, name)
    IN IF path # NoPath /\ PathExists(path)
       THEN [entered EXCEPT ![j] = LoadModuleTranslations(entered[j])]
       ELSE entered

\* A mutant of RegisterTranslationsOp: the source that is written to moves to
\* the end of self._modules.
RegisterTranslationsOpMovesLast(mods, name, locale, translations) ==
    LET old == IF HasModule(mods, name)
               THEN mods[IndexOf(mods, name)]
               ELSE ModuleTranslation(name, NoPath)
        rest == SelectSeq(mods, LAMBDA m : m.module_name # name)
    IN Append(rest,
              [old EXCEPT !.translations =
                  SetItem(old.translations, locale,
                          Update(GetOrEmpty(old.translations, locale), translations))])

\* register_translations
RegisterTranslationsOp(mods, name, locale, translations) ==
    LET entered == IF HasModule(mods, name)
                   THEN mods
                   ELSE Append(mods, ModuleTranslation(name, NoPath))
        j == IndexOf(entered, name)
        old == entered[j].translations
    IN [entered EXCEPT ![j].translations =
            SetItem(old, locale, Update(GetOrEmpty(old, locale), translations))]

\* A mutant of UnregisterOp: the whole of self._modules is cleared.
UnregisterOpClearsAll(mods, name) ==
    IF HasModule(mods, name) THEN <<>> ELSE mods

\* unregister_module: del self._modules[module_name]
UnregisterOp(mods, name) ==
    SelectSeq(mods, LAMBDA m : m.module_name # name)

\* reload_module, for a module that is registered
ReloadOne(module) ==
    LoadModuleTranslations([module EXCEPT !.translations = EmptyDict])

ReloadModuleOp(mods, name) ==
    LET i == IndexOf(mods, name)
    IN IF i = 0 THEN mods ELSE [mods EXCEPT ![i] = ReloadOne(mods[i])]

\* reload_all: reload_module for every key of self._modules
ReloadAllOp(mods) == [i \in 1..Len(mods) |-> ReloadOne(mods[i])]

\* One iteration of the outer loop of _rebuild_cache: a module's locales are
\* merged into the cache.
MergeModule(cache, module) ==
    LET tr == module.translations
    IN [locale \in (DOMAIN cache) \cup (DOMAIN tr) |->
            IF locale \in DOMAIN tr
            THEN Update(GetOrEmpty(cache, locale), tr[locale])
            ELSE cache[locale]]

RECURSIVE MergeFrom(_, _, _)
MergeFrom(cache, mods, i) ==
    IF i > Len(mods) THEN cache
    ELSE MergeFrom(MergeModule(cache, mods[i]), mods, i + 1)

\* A mutant of RebuildCache: the modules are merged in reverse order.
RECURSIVE MergeDownFrom(_, _, _)
MergeDownFrom(cache, mods, i) ==
    IF i < 1 THEN cache
    ELSE MergeDownFrom(MergeModule(cache, mods[i]), mods, i - 1)
RebuildReversed(mods) == MergeDownFrom(EmptyDict, mods, Len(mods))

\* _rebuild_cache: clear, then merge the modules in the order of self._modules
RebuildCache(mods) == MergeFrom(EmptyDict, mods, 1)

\* the loop of register_module_translations over translations.items()
RECURSIVE RegisterEachLocale(_, _, _, _)
RegisterEachLocale(mods, name, translations, todo) ==
    IF todo = {} THEN mods
    ELSE LET locale == CHOOSE x \in todo : TRUE
         IN RegisterEachLocale(
                RegisterTranslationsOp(mods, name, locale, translations[locale]),
                name, translations, todo \ {locale})

\* The locale -> dict mappings passed to register_module_translations; the
\* empty one stands for translations=None as well (both are falsy).
InlineBundles ==
    { EmptyDict,
      (en :> (g :> DictV(u :> StrV(fu)))) @@ (pt :> (k :> StrV(v2))) }

----------------------------------------------------------------------------
(* TranslationRegistry: the calls.                                         *)

\* op: the call, its arguments and, for a read of the registry, the cache as
\* the call found it
Call(name, args) == [name |-> name, args |-> args, before |-> EmptyDict]
Read(name, args) == [name |-> name, args |-> args, before |-> merged_translations]

Counted(n) == IF n < MaxRebuilds THEN n + 1 ELSE n

\* trip: the round trip of one source that is being observed. It is "off"
\* in a specification that does not observe round trips. From "idle", a
\* register_module with a path starts a trip (new: the name was not
\* registered); a
\* get_all_translations then records the tables; the unregistration of that
\* source and its registration with the same path follow; the next
\* get_all_translations ends the trip. Any other change of self._modules
\* abandons the trip.
NoTrip ==
    [stage |-> "off", name |-> "", path |-> NoPath, new |-> FALSE, tables |-> EmptyDict]
IdleTrip == [NoTrip EXCEPT !.stage = "idle"]

TripAfterRegister(name, path) ==
    IF trip.stage = "off" THEN trip
    ELSE IF trip.stage = "idle"
         THEN IF path # NoPath
              THEN [stage |-> "registered", name |-> name, path |-> path,
                    new |-> ~HasModule(modules, name), tables |-> EmptyDict]
              ELSE trip
    ELSE IF trip.stage = "unregistered" /\ name = trip.name /\ path = trip.path
         THEN [trip EXCEPT !.stage = "reregistered"]
    ELSE IdleTrip

TripAfterUnregister(name) ==
    IF trip.stage \in {"off", "idle"} THEN trip
    ELSE IF trip.stage = "observed" /\ name = trip.name
         THEN [trip EXCEPT !.stage = "unregistered"]
    ELSE IdleTrip

TripAfterUpdate == IF trip.stage \in {"off", "idle"} THEN trip ELSE IdleTrip

TripAfterReadAll(result) ==
    IF trip.stage = "registered"
    THEN [trip EXCEPT !.stage = "observed", !.tables = result]
    ELSE IF trip.stage = "reregistered" THEN [trip EXCEPT !.stage = "done"]
    ELSE trip

\* "if self._dirty: self._rebuild_cache()" at the head of every read
CacheOnRead == IF dirty THEN RebuildCache(modules) ELSE merged_translations

RebuildIfDirty ==
    /\ merged_translations' = CacheOnRead
    /\ dirty' = FALSE
    /\ rebuilds' = IF dirty THEN Counted(rebuilds) ELSE rebuilds

RegisterModule(name, path) ==
    /\ ops < MaxOps
    /\ modules' = RegisterModuleOp(modules, name, path)
    /\ dirty' = TRUE
    /\ op' = Call("register_module", <<name>>)
    /\ ret' = NoneRet
    /\ ops' = ops + 1
    /\ trip' = TripAfterRegister(name, path)
    /\ UNCHANGED <<merged_translations, rebuilds, lookups, service_vars, threads>>

RegisterTranslations(name, locale, translations) ==
    /\ ops < MaxOps
    /\ modules' = RegisterTranslationsOp(modules, name, locale, translations)
    /\ dirty' = TRUE
    /\ op' = Call("register_translations", <<name>>)
    /\ ret' = NoneRet
    /\ ops' = ops + 1
    /\ trip' = TripAfterUpdate
    /\ UNCHANGED <<merged_translations, rebuilds, lookups, service_vars, threads>>

\* The module-level register_module_translations, on the singleton registry.
RegisterModuleTranslations(name, path, translations) ==
    /\ ops < MaxOps
    /\ LET withPath == IF path # NoPath
                       THEN RegisterModuleOp(modules, name, path)
                       ELSE modules
       IN modules' = RegisterEachLocale(withPath, name, translations,
                                        DOMAIN translations)
    /\ dirty' = (dirty \/ path # NoPath \/ translations # EmptyDict)
    /\ op' = Call("register_module_translations", <<name>>)
    /\ ret' = NoneRet
    /\ ops' = ops + 1
    /\ trip' = TripAfterUpdate
    /\ UNCHANGED <<merged_translations, rebuilds, lookups, service_vars, threads>>

\* A mutant of UnregisterModule: the cache is not marked dirty.
UnregisterModuleClean(name) ==
    /\ ops < MaxOps
    /\ modules' = UnregisterOp(modules, name)
    /\ op' = Call("unregister_module", <<name>>)
    /\ ret' = BoolRet(HasModule(modules, name))
    /\ ops' = ops + 1
    /\ trip' = TripAfterUnregister(name)
    /\ UNCHANGED <<dirty, merged_translations, rebuilds, lookups, service_vars, threads>>

UnregisterModule(name) ==
    /\ ops < MaxOps
    /\ modules' = UnregisterOp(modules, name)
    /\ dirty' = (dirty \/ HasModule(modules, name))
    /\ op' = Call("unregister_module", <<name>>)
    /\ ret' = BoolRet(HasModule(modules, name))
    /\ ops' = ops + 1
    /\ trip' = TripAfterUnregister(name)
    /\ UNCHANGED <<merged_translations, rebuilds, lookups, service_vars, threads>>

ReloadModule(name) ==
    /\ ops < MaxOps
    /\ modules' = ReloadModuleOp(modules, name)
    /\ dirty' = (dirty \/ HasModule(modules, name))
    /\ op' = Call("reload_module", <<name>>)
    /\ ret' = BoolRet(HasModule(modules, name))
    /\ ops' = ops + 1
    /\ trip' = TripAfterUpdate
    /\ UNCHANGED <<merged_translations, rebuilds, lookups, service_vars, threads>>

ReloadAll ==
    /\ ops < MaxOps
    /\ modules' = ReloadAllOp(modules)
    /\ dirty' = (dirty \/ modules # <<>>)
    /\ op' = Call("reload_all", <<>>)
    /\ ret' = NoneRet
    /\ ops' = ops + 1
    /\ trip' = TripAfterUpdate
    /\ UNCHANGED <<merged_translations, rebuilds, lookups, service_vars, threads>>

GetTranslations(locale) ==
    /\ RebuildIfDirty
    /\ op' = Read("get_translations", <<locale>>)
    /\ ret' = DictV(GetOrEmpty(CacheOnRead, locale))
    /\ UNCHANGED trip
    /\ UNCHANGED <<modules, lookups, ops, service_vars, threads>>

GetAllTranslations ==
    /\ RebuildIfDirty
    /\ op' = Read("get_all_translations", <<>>)
    /\ ret' = [kind |-> "all", val |-> CacheOnRead]
    /\ trip' = TripAfterReadAll(CacheOnRead)
    /\ UNCHANGED <<modules, lookups, ops, service_vars, threads>>

GetAvailableLocales ==
    /\ RebuildIfDirty
    /\ op' = Read("get_available_locales", <<>>)
    /\ ret' = [kind |-> "locales", val |-> DOMAIN CacheOnRead]
    /\ UNCHANGED trip
    /\ UNCHANGED <<modules, lookups, ops, service_vars, threads>>

\* TranslationRegistry.get_registered_modules: list(self._modules.keys()),
\* the cache is not consulted
GetRegisteredModules ==
    /\ op' = Read("get_registered_modules", <<>>)
    /\ ret' = [kind |-> "names",
               val |-> [i \in 1..Len(modules) |-> modules[i].module_name]]
    /\ UNCHANGED <<modules, merged_translations, dirty, rebuilds, trip, lookups,
                   ops, service_vars, threads>>

----------------------------------------------------------------------------
(* TranslationRegistry under threads: get_translations and                 *)
(* register_translations run step by step, and the steps of different      *)
(* threads interleave. The registry has no lock. A step ends where the     *)
(* interpreter can hand the running thread's turn to another thread: after *)
(* a call returns and at the start of each turn of a loop, so also between *)
(* the step of the loop's iterator and the update() that merges the module *)
(* it handed out.                                                          *)

Readers == {"r1", "r2"}
Writers == {"w1"}
Threads == Readers \cup Writers

\* pc: the step the thread is at ("idle": between calls); i, n: the
\* position and the expected size of its iteration of self._modules.values();
\* keys: the keys the sources defined when its call began; torn: its last
\* get_translations returned while another thread had cleared the cache and
\* not yet merged every module, without one of those keys; overlapped: some call of this thread has overlapped a
\* call of another thread.
IdleThread ==
    [pc |-> "idle", i |-> 0, n |-> 0, keys |-> {}, torn |-> FALSE, overlapped |-> FALSE]

\* the top-level keys the sources hold for a locale
SourceKeys(mods, locale) ==
    UNION {DOMAIN GetOrEmpty(mods[i].translations, locale) : i \in 1..Len(mods)}

Busy(th) == threads[th].pc # "idle"
Raced == \E th \in Threads : threads[th].overlapped

\* thread th takes a step that leaves it as the record now
ThreadsAfter(th, now) ==
    LET overlaps == \E other \in Threads \ {th} : Busy(other)
    IN [x \in Threads |->
           IF x = th THEN [now EXCEPT !.overlapped = threads[th].overlapped \/ overlaps]
           ELSE IF Busy(x) THEN [threads[x] EXCEPT !.overlapped = TRUE]
           ELSE threads[x]]

ThreadStep == Call("thread_step", <<>>)

\* get_translations: "if self._dirty:"
ThreadCheckDirty(th) ==
    /\ threads[th].pc = "idle"
    /\ threads' = ThreadsAfter(th,
          [threads[th] EXCEPT !.pc = IF dirty THEN "clear" ELSE "return",
                              !.keys = SourceKeys(modules, en),
                              !.torn = FALSE])
    /\ op' = ThreadStep
    /\ UNCHANGED <<modules, merged_translations, dirty, rebuilds, ops, trip, ret,
                   lookups, service_vars>>

\* _rebuild_cache: "self._merged_translations.clear()"
ThreadClear(th) ==
    /\ threads[th].pc = "clear"
    /\ merged_translations' = EmptyDict
    /\ rebuilds' = Counted(rebuilds)
    /\ threads' = ThreadsAfter(th, [threads[th] EXCEPT !.pc = "for"])
    /\ op' = ThreadStep
    /\ UNCHANGED <<modules, dirty, ops, trip, ret, lookups, service_vars>>

\* _rebuild_cache: "for module in self._modules.values():", the iterator is
\* made and notes the size of the dict
ThreadStartLoop(th) ==
    /\ threads[th].pc = "for"
    /\ threads' = ThreadsAfter(th,
          [threads[th] EXCEPT !.pc = "next", !.i = 1, !.n = Len(modules)])
    /\ op' = ThreadStep
    /\ UNCHANGED <<modules, merged_translations, dirty, rebuilds, ops, trip, ret,
                   lookups, service_vars>>

\* _rebuild_cache: one step of the iterator of "for module in
\* self._modules.values():". The iterator raises RuntimeError when the dict
\* has changed size; the call ends with that error and the cache stays as
\* it is. Otherwise the loop ends, or the thread is handed module i; it
\* can be switched out with the module in hand, before the module is merged.
ThreadLoop(th) ==
    /\ threads[th].pc = "next"
    /\ IF Len(modules) # threads[th].n
       THEN /\ threads' = ThreadsAfter(th, [threads[th] EXCEPT !.pc = "idle"])
            /\ op' = Read("get_translations", <<en, th>>)
            /\ ret' = [kind |-> "error", val |-> "RuntimeError"]
       ELSE IF threads[th].i > threads[th].n
       THEN /\ threads' = ThreadsAfter(th, [threads[th] EXCEPT !.pc = "mark"])
            /\ op' = ThreadStep
            /\ UNCHANGED ret
       ELSE /\ threads' = ThreadsAfter(th, [threads[th] EXCEPT !.pc = "merge"])
            /\ op' = ThreadStep
            /\ UNCHANGED ret
    /\ UNCHANGED <<modules, merged_translations, dirty, rebuilds, ops, trip,
                   lookups, service_vars>>

\* _rebuild_cache: the body of the loop for the module in hand, "for locale,
\* translations in module.translations.items(): ... .update(translations)".
\* The module is the registry's own object: it is merged as it is now,
\* into the cache as it is now, whatever other threads have done to the
\* registry and the cache since the iterator handed it out.
ThreadMerge(th) ==
    /\ threads[th].pc = "merge"
    /\ merged_translations' =
          MergeModule(merged_translations, modules[threads[th].i])
    /\ threads' = ThreadsAfter(th, [threads[th] EXCEPT !.pc = "next", !.i = @ + 1])
    /\ op' = ThreadStep
    /\ UNCHANGED <<modules, dirty, rebuilds, ops, trip, ret, lookups,
                   service_vars>>

\* _rebuild_cache: "self._dirty = False"
ThreadMarkClean(th) ==
    /\ threads[th].pc = "mark"
    /\ dirty' = FALSE
    /\ threads' = ThreadsAfter(th, [threads[th] EXCEPT !.pc = "return"])
    /\ op' = ThreadStep
    /\ UNCHANGED <<modules, merged_translations, rebuilds, ops, trip, ret, lookups,
                   service_vars>>

\* get_translations: "return self._merged_translations.get(locale, {})"
ThreadReturn(th) ==
    /\ threads[th].pc = "return"
    /\ ret' = DictV(GetOrEmpty(merged_translations, en))
    /\ op' = Read("get_translations", <<en, th>>)
    /\ threads' = ThreadsAfter(th,
          [threads[th] EXCEPT
              !.pc = "idle",
              !.torn = /\ \E other \in Threads \ {th} :
                              \/ threads[other].pc = "for"
                              \/ threads[other].pc = "merge"
                              \/ /\ threads[other].pc = "next"
                                 /\ threads[other].i <= threads[other].n
                       /\ ~(threads[th].keys \subseteq
                                DOMAIN GetOrEmpty(merged_translations, en))])
    /\ UNCHANGED <<modules, merged_translations, dirty, rebuilds, ops, trip, lookups,
                   service_vars>>

\* register_translations: the statements that write self._modules
ThreadWrite(th, name, translations) ==
    /\ threads[th].pc = "idle"
    /\ ops < MaxOps
    /\ modules' = RegisterTranslationsOp(modules, name, en, translations)
    /\ ops' = ops + 1
    /\ threads' = ThreadsAfter(th, [threads[th] EXCEPT !.pc = "dirty"])
    /\ op' = ThreadStep
    /\ UNCHANGED <<merged_translations, dirty, rebuilds, trip, ret, lookups,
                   service_vars>>

\* A mutant of ThreadMarkDirty: the flag is left as it is.
ThreadMarkNothing(th) ==
    /\ threads[th].pc = "dirty"
    /\ threads' = ThreadsAfter(th, [threads[th] EXCEPT !.pc = "idle"])
    /\ op' = ThreadStep
    /\ UNCHANGED <<modules, merged_translations, dirty, rebuilds, ops, trip, ret,
                   lookups, service_vars>>

\* register_translations: "self._dirty = True"
ThreadMarkDirty(th) ==
    /\ threads[th].pc = "dirty"
    /\ dirty' = TRUE
    /\ threads' = ThreadsAfter(th, [threads[th] EXCEPT !.pc = "idle"])
    /\ op' = ThreadStep
    /\ UNCHANGED <<modules, merged_translations, rebuilds, ops, trip, ret, lookups,
                   service_vars>>

\* The caller of get_all_translations keeps the mapping it was handed.
\* "self._merged_translations.copy()" copies the outer dict only: the
\* per-locale dicts of the result are the cache's own objects, so a write
\* to one of them is a write to the cache, and a write to the outer mapping
\* is not.
CallerKeys == {k, <<"q">>}
CallerValue == StrV(<<"X">>)

CallerSetsKey(locale, key) ==
    /\ op.name = "get_all_translations"
    /\ locale \in DOMAIN ret.val
    /\ merged_translations' =
          [merged_translations EXCEPT ![locale] = SetItem(@, key, CallerValue)]
    /\ op' = Read("caller_sets_key", <<locale, key>>)
    /\ ret' = [ret EXCEPT !.val[locale] = SetItem(@, key, CallerValue)]
    /\ UNCHANGED <<modules, dirty, rebuilds, ops, trip, lookups, service_vars, threads>>

CallerDeletesKey(locale, key) ==
    /\ op.name = "get_all_translations"
    /\ locale \in DOMAIN ret.val
    /\ key \in DOMAIN ret.val[locale]
    /\ merged_translations' =
          [merged_translations EXCEPT ![locale] =
              [x \in (DOMAIN @) \ {key} |-> @[x]]]
    /\ op' = Read("caller_deletes_key", <<locale, key>>)
    /\ ret' = [ret EXCEPT !.val[locale] = [x \in (DOMAIN @) \ {key} |-> @[x]]]
    /\ UNCHANGED <<modules, dirty, rebuilds, ops, trip, lookups, service_vars, threads>>

CallerSetsLocale(locale) ==
    /\ op.name = "get_all_translations"
    /\ op' = Read("caller_sets_locale", <<locale>>)
    /\ ret' = [ret EXCEPT !.val = SetItem(@, locale, EmptyDict)]
    /\ UNCHANGED <<registry_state, lookups, service_vars>>

----------------------------------------------------------------------------
(* Python strings.                                                         *)

\* s.startswith(prefix)
StartsWith(s, prefix) ==
    /\ Len(s) >= Len(prefix)
    /\ SubSeq(s, 1, Len(prefix)) = prefix

\* the position of the first sep at or after i, 0 when there is none
RECURSIVE FindFrom(_, _, _)
FindFrom(s, sep, i) ==
    IF i > Len(s) THEN 0
    ELSE IF s[i] = sep THEN i
    ELSE FindFrom(s, sep, i + 1)

\* s.split(sep) for a one-character sep: "a..b" gives <<"a", "", "b">> and
\* "" gives <<"">>
RECURSIVE Split(_, _)
Split(s, sep) ==
    LET i == FindFrom(s, sep, 1)
    IN IF i = 0 THEN <<s>>
       ELSE <<SubSeq(s, 1, i - 1)>> \o Split(SubSeq(s, i + 1, Len(s)), sep)

DigitChars == <<"0", "1", "2", "3", "4", "5", "6", "7", "8", "9">>

\* str(n) of an int
RECURSIVE NatToStr(_)
NatToStr(n) ==
    IF n < 10 THEN <<DigitChars[n + 1]>>
    ELSE NatToStr(n \div 10) \o <<DigitChars[(n % 10) + 1]>>

IntToStr(n) == IF n < 0 THEN <<"-">> \o NatToStr(-n) ELSE NatToStr(n)

\* the characters the regex class \w matches, among those of the model
WordChars ==
    {"a", "b", "c", "d", "e", "f", "g", "h", "i", "j", "k", "l", "m", "n", "o",
     "p", "q", "r", "s", "t", "u", "v", "w", "x", "y", "z",
     "A", "B", "C", "D", "E", "F", "G", "H", "I", "J", "K", "L", "M", "N", "O",
     "P", "Q", "R", "S", "T", "U", "V", "W", "X", "Y", "Z", "_"}
    \cup {DigitChars[i] : i \in 1..10}

\* str(value) of a parameter value: a str, or an int
StrOf(value) == IF value.kind = "str" THEN value.val ELSE IntToStr(value.val)

----------------------------------------------------------------------------
(* EchoesService (services/echoes_service.py): the pure methods.           *)

\* A mutant of GetNestedValue: whatever the path ends at is returned when it
\* is a string, and a string met on the way is returned as well.
RECURSIVE DescendLoose(_, _, _)
DescendLoose(value, keys, i) ==
    IF i > Len(keys) THEN (IF value.kind = "str" THEN value ELSE NoneRet)
    ELSE IF value.kind = "dict" /\ keys[i] \in DOMAIN value.val
         THEN DescendLoose(value.val[keys[i]], keys, i + 1)
    ELSE IF value.kind = "str" THEN value
    ELSE NoneRet
GetNestedValueLoose(data, key) == DescendLoose(DictV(data), Split(key, "."), 1)

\* the loop of _get_nested_value and its final isinstance(value, str) test
RECURSIVE Descend(_, _, _)
Descend(value, keys, i) ==
    IF i > Len(keys) THEN (IF value.kind = "str" THEN value ELSE NoneRet)
    ELSE IF value.kind = "dict" /\ keys[i] \in DOMAIN value.val
         THEN Descend(value.val[keys[i]], keys, i + 1)
    ELSE NoneRet

\* _get_nested_value: StrV(the string), or NoneRet for None
GetNestedValue(data, key) == Descend(DictV(data), Split(key, "."), 1)

\* the end of the longest run of \w characters that starts at i (i - 1 when
\* s[i] is no \w character)
RECURSIVE WordEnd(_, _)
WordEnd(s, i) ==
    IF i <= Len(s) /\ s[i] \in WordChars THEN WordEnd(s, i + 1) ELSE i - 1

\* replace_param of _interpolate, for the placeholder {name}
ReplaceParam(name, params) ==
    IF name \in DOMAIN params /\ params[name].kind # "null"
    THEN StrOf(params[name])
    ELSE <<"{">> \o name \o <<"}">>

\* re.sub(r"\{(\w+)\}", replace_param, template), from position i on
RECURSIVE SubFrom(_, _, _)
SubFrom(template, params, i) ==
    IF i > Len(template) THEN <<>>
    ELSE LET e == WordEnd(template, i + 1)
         IN IF /\ template[i] = "{"
               /\ e >= i + 1
               /\ e + 1 <= Len(template)
               /\ template[e + 1] = "}"
            THEN ReplaceParam(SubSeq(template, i + 1, e), params)
                 \o SubFrom(template, params, e + 2)
            ELSE <<template[i]>> \o SubFrom(template, params, i + 1)

\* A mutant of Interpolate: a placeholder without a parameter is erased.
RECURSIVE SubErasing(_, _, _)
SubErasing(template, params, i) ==
    IF i > Len(template) THEN <<>>
    ELSE LET e == WordEnd(template, i + 1)
         IN IF /\ template[i] = "{"
               /\ e >= i + 1
               /\ e + 1 <= Len(template)
               /\ template[e + 1] = "}"
            THEN (IF SubSeq(template, i + 1, e) \in DOMAIN params
                  THEN ReplaceParam(SubSeq(template, i + 1, e), params)
                  ELSE <<>>)
                 \o SubErasing(template, params, e + 2)
            ELSE <<template[i]>> \o SubErasing(template, params, i + 1)
InterpolateErasing(template, params) == SubErasing(template, params, 1)

\* _interpolate
Interpolate(template, params) == SubFrom(template, params, 1)

zero == <<"z", "e", "r", "o">>
one == <<"o", "n", "e">>
two == <<"t", "w", "o">>
few == <<"f", "e", "w">>
many == <<"m", "a", "n", "y">>
other == <<"o", "t", "h", "e", "r">>

\* A mutant of GetPluralForm: the Russian rule without its 11..14 band.
GetPluralFormNoTeens(count, locale) ==
    LET base_locale == IF FindFrom(locale, "-", 1) # 0
                       THEN Split(locale, "-")[1]
                       ELSE locale
    IN IF count = 0 THEN zero
       ELSE IF base_locale = fr THEN (IF count \in {0, 1} THEN one ELSE other)
       ELSE IF base_locale = ru
            THEN IF count % 10 = 1 THEN one
                 ELSE IF 2 <= count % 10 /\ count % 10 <= 4 THEN few
                 ELSE many
       ELSE IF count = 1 THEN one ELSE other

\* A mutant of GetPluralForm: the Arabic rule without its dual.
GetPluralFormArNoTwo(count, locale) ==
    LET base_locale == IF FindFrom(locale, "-", 1) # 0
                       THEN Split(locale, "-")[1]
                       ELSE locale
        mod10 == count % 10
        mod100 == count % 100
    IN IF count = 0 THEN zero
       ELSE IF base_locale = fr THEN (IF count \in {0, 1} THEN one ELSE other)
       ELSE IF base_locale = ru
            THEN IF mod10 = 1 /\ mod100 # 11 THEN one
                 ELSE IF 2 <= mod10 /\ mod10 <= 4 /\ ~(12 <= mod100 /\ mod100 <= 14)
                      THEN few
                 ELSE many
       ELSE IF base_locale = ar
            THEN IF count = 0 THEN zero
                 ELSE IF count = 1 THEN one
                 ELSE IF 3 <= mod100 /\ mod100 <= 10 THEN few
                 ELSE IF 11 <= mod100 THEN many
                 ELSE other
       ELSE IF count = 1 THEN one ELSE other

\* A mutant of GetPluralForm: the rule is chosen by the whole locale tag.
GetPluralFormWholeTag(count, locale) ==
    LET mod10 == count % 10
        mod100 == count % 100
    IN IF count = 0 THEN zero
       ELSE IF locale = fr THEN (IF count \in {0, 1} THEN one ELSE other)
       ELSE IF locale = ru
            THEN IF mod10 = 1 /\ mod100 # 11 THEN one
                 ELSE IF 2 <= mod10 /\ mod10 <= 4 /\ ~(12 <= mod100 /\ mod100 <= 14)
                      THEN few
                 ELSE many
       ELSE IF locale = ar
            THEN IF count = 0 THEN zero
                 ELSE IF count = 1 THEN one
                 ELSE IF count = 2 THEN two
                 ELSE IF 3 <= mod100 /\ mod100 <= 10 THEN few
                 ELSE IF 11 <= mod100 THEN many
                 ELSE other
       ELSE IF count = 1 THEN one ELSE other

\* _get_plural_form
GetPluralForm(count, locale) ==
    LET base_locale == IF FindFrom(locale, "-", 1) # 0
                       THEN Split(locale, "-")[1]
                       ELSE locale
        mod10 == count % 10
        mod100 == count % 100
    IN IF count = 0 THEN zero
       ELSE IF base_locale = fr THEN (IF count \in {0, 1} THEN one ELSE other)
       ELSE IF base_locale = ru
            THEN IF mod10 = 1 /\ mod100 # 11 THEN one
                 ELSE IF 2 <= mod10 /\ mod10 <= 4 /\ ~(12 <= mod100 /\ mod100 <= 14)
                      THEN few
                 ELSE many
       ELSE IF base_locale = ar
            THEN IF count = 0 THEN zero
                 ELSE IF count = 1 THEN one
                 ELSE IF count = 2 THEN two
                 ELSE IF 3 <= mod100 /\ mod100 <= 10 THEN few
                 ELSE IF 11 <= mod100 THEN many
                 ELSE other
       ELSE IF count = 1 THEN one ELSE other

\* f"[{key}]", the missing translation marker
Marker(key) == <<"[">> \o key \o <<"]">>

----------------------------------------------------------------------------
(* EchoesService: the inputs.                                              *)

\* The {locale}.json files load_translations finds under the modules
\* directory, in the order of iterdir: locale -> the files.
ServiceFiles ==
    (en :> << GoodFile(
                (<<"a">> :> DictV(<<"b">> :> StrV(<<"Y">>)))
                @@ (<<"n">> :> NumV(5))
                @@ (<<"l">> :> ListV)
                @@ (<<"z">> :> NullV)
                @@ (<<"h">> :> StrV(<<"H", "i", " ", "{", "w", "}", "{", "x", "}">>))
                @@ (<<"d">> :> StrV(<<"D">>))
                @@ (<<"i">> :> DictV(
                       (one :> StrV(<<"{", "c", "o", "u", "n", "t", "}", " ", "i", "t">>))
                       @@ (other :> StrV(<<"{", "c", "o", "u", "n", "t", "}", " ", "i", "t", "s">>))))
                @@ (<<"j">> :> DictV(
                       (one :> StrV(<<"[", "{", "c", "o", "u", "n", "t", "}", "]">>))
                       @@ (other :> StrV(<<"m", "o", "r", "e">>))))),
              BadFile >>)
    @@ (fr :> << GoodFile(
                (<<"a">> :> DictV(<<"b">> :> DictV(<<"c">> :> StrV(<<"X">>))))
                @@ (<<"h">> :> StrV(<<"S", "a", "l", "u", "t", " ", "{", "w", "}">>))
                @@ (<<"i">> :> DictV(
                       (one :> StrV(<<"{", "c", "o", "u", "n", "t", "}", " ", "f">>))
                       @@ (other :> StrV(<<"{", "c", "o", "u", "n", "t", "}", " ", "f", "s">>))))) >>)

\* locale=None
NoLocale == <<"None">>

\* The bundles passed to EchoesService.register_module_translations.
ServiceBundles ==
    { (fr :> (<<"i">> :> DictV(zero :> StrV(<<"r", "i", "e", "n">>)))) }

TranslateKeys ==
    { <<"a", ".", "b", ".", "c">>, <<"a", ".", "b">>, <<"a">>, <<"n">>, <<"l">>,
      <<"z">>, <<"h">>, <<"d">>, <<"m">> }
TranslateLocales == {NoLocale, en, fr, xx}
\* the locales load_translations is called with
LoadLocales == {en, fr, xx}

count_name == <<"c", "o", "u", "n", "t">>

\* The params of translate; the empty dict stands for params=None as well
\* (translate tests "if params", translate_plural uses "params or {}").
InterpolatedKeys == {<<"h">>}
TranslateParams ==
    { (<<"w">> :> StrV(<<"A">>)),
      (<<"w">> :> NullV) @@ (<<"x">> :> NumV(7)),
      (<<"w">> :> StrV(<<"{", "x", "}">>)) @@ (<<"x">> :> StrV(<<"B">>)) }

PluralKeys == {<<"i">>, <<"j">>}
PluralLocales == {NoLocale, en, fr}
PluralParams ==
    { EmptyDict,
      (count_name :> NumV(9)),
      (<<"w">> :> StrV(<<"A">>)) }

\* The locales _get_plural_form is applied to.
FormLocales == {en, en_US, fr, fr_CA, ru, ru_RU, ar, ar_EG, pt}

\* The trees and keys _get_nested_value is applied to: every key made of
\* 1 .. MaxSegments of these segments, joined by dots.
LookupSegments == {<<"a">>, <<"b">>, <<"c">>, <<>>}

SeqsUpTo(S, n) == UNION {[1..len -> S] : len \in 1..n}

RECURSIVE JoinDots(_)
JoinDots(segs) ==
    IF Len(segs) = 1 THEN segs[1]
    ELSE segs[1] \o <<".">> \o JoinDots(Tail(segs))

LookupTrees ==
    { ServiceFiles[en][1].data,
      ServiceFiles[fr][1].data,
      (<<"a", ".", "b">> :> StrV(<<"F">>))
      @@ (<<>> :> DictV(<<>> :> StrV(<<"E">>)))
      @@ (<<"a">> :> DictV((<<>> :> StrV(<<"G">>))
                           @@ (<<"a">> :> NullV)
                           @@ (<<"b">> :> DictV(<<"c">> :> NumV(3)))
                           @@ (<<"c">> :> ListV)))
      @@ (<<"b">> :> DictV(EmptyDict))
      @@ (<<"c">> :> StrV(<<"C">>)) }

\* The templates _interpolate is applied to: 1 .. MaxTokens tokens, each a
\* placeholder {text} or the literal text.
Lit(text) == [ph |-> FALSE, text |-> text]
Ph(name) == [ph |-> TRUE, text |-> name]
Tokens ==
    { Lit(<<"a", " ">>), Lit(<<"{">>), Lit(<<"}">>),
      Ph(<<"w">>), Ph(<<"x">>), Ph(<<"n", "_", "1">>) }

RECURSIVE Render(_)
Render(tokens) ==
    IF tokens = <<>> THEN <<>>
    ELSE (IF tokens[1].ph THEN <<"{">> \o tokens[1].text \o <<"}">>
          ELSE tokens[1].text)
         \o Render(Tail(tokens))

TemplateKey == <<"t", "p", "l">>
TemplateBundles ==
    {en :> (TemplateKey :> StrV(Render(tokens))) : tokens \in SeqsUpTo(Tokens, MaxTokens)}
TemplateParams ==
    TranslateParams \cup { EmptyDict, (<<"n", "_", "1">> :> NumV(-3)) }

----------------------------------------------------------------------------
(* EchoesService: the methods that read and load self._translations.       *)

\* the service's tables: [tr |-> self._translations, loaded |-> self._loaded_locales]
ServiceState == [tr |-> svc_translations, loaded |-> loaded_locales]

\* the loop of load_translations over the files found, each through
\* _load_translation_file
RECURSIVE LoadFiles(_, _, _)
LoadFiles(table, files, i) ==
    IF i > Len(files) THEN table
    ELSE LoadFiles(IF files[i].ok THEN Update(table, files[i].data) ELSE table,
                   files, i + 1)

\* load_translations: the tables after the call
LoadTranslationsOp(st, locale) ==
    IF locale \in st.loaded THEN st
    ELSE [tr |-> SetItem(st.tr, locale,
                    LoadFiles(EmptyDict,
                              IF locale \in DOMAIN ServiceFiles
                              THEN ServiceFiles[locale] ELSE <<>>,
                              1)),
          loaded |-> st.loaded \cup {locale}]

\* EchoesService.register_module_translations, the loop over translations.items()
RECURSIVE RegisterBundle(_, _, _)
RegisterBundle(st, translations, todo) ==
    IF todo = {} THEN st
    ELSE LET locale == CHOOSE x \in todo : TRUE
         IN RegisterBundle(
                [tr |-> SetItem(st.tr, locale,
                            Update(GetOrEmpty(st.tr, locale), translations[locale])),
                 loaded |-> st.loaded \cup {locale}],
                translations, todo \ {locale})

\* "if locale is None: locale = self._default_locale"
LocaleOrDefault(locale, default) == IF locale = NoLocale THEN default ELSE locale

\* the tables after the two load_translations calls of translate
AfterTranslate(st, locale, default) ==
    LoadTranslationsOp(LoadTranslationsOp(st, LocaleOrDefault(locale, default)), default)

\* A mutant of TranslateText: the default locale is not consulted.
TranslateTextNoFallback(st, key, locale, params, default) ==
    LET target == LocaleOrDefault(locale, default)
        tables == AfterTranslate(st, locale, default).tr
        value == GetNestedValue(GetOrEmpty(tables, target), key)
    IN IF value = NoneRet THEN Marker(key)
       ELSE IF params # EmptyDict THEN Interpolate(value.val, params)
       ELSE value.val

\* translate: the string it returns
TranslateText(st, key, locale, params, default) ==
    LET target == LocaleOrDefault(locale, default)
        tables == AfterTranslate(st, locale, default).tr
        first == GetNestedValue(GetOrEmpty(tables, target), key)
        value == IF first = NoneRet
                 THEN GetNestedValue(GetOrEmpty(tables, default), key)
                 ELSE first
    IN IF value = NoneRet THEN Marker(key)
       ELSE IF params # EmptyDict THEN Interpolate(value.val, params)
       ELSE value.val

\* f"{key}.{plural_form}"
PluralKey(key, form) == key \o <<".">> \o form

\* {"count": count, **(params or {})}
AllParams(count, params) ==
    Update(count_name :> NumV(count), params)

\* translate_plural: whether the first result sends it to {key}.other
Retries(result, form) == StartsWith(result, <<"[">>) /\ form # other

\* A mutant of PluralLookups: no retry with {key}.other.
PluralLookupsNoRetry(st, key, count, locale, params, default) ==
    <<PluralKey(key, GetPluralForm(count, LocaleOrDefault(locale, default)))>>

\* translate_plural: the keys it passes to translate, in order
PluralLookups(st, key, count, locale, params, default) ==
    LET target == LocaleOrDefault(locale, default)
        form == GetPluralForm(count, target)
        result == TranslateText(st, PluralKey(key, form), target,
                                AllParams(count, params), default)
    IN IF Retries(result, form)
       THEN <<PluralKey(key, form), PluralKey(key, other)>>
       ELSE <<PluralKey(key, form)>>

\* translate_plural: the string it returns, the result of its last translate
PluralText(st, key, count, locale, params, default) ==
    LET target == LocaleOrDefault(locale, default)
        keys == PluralLookups(st, key, count, locale, params, default)
    IN TranslateText(st, keys[Len(keys)], target, AllParams(count, params), default)

\* A mutant of HasTranslationOp: the default locale is consulted as well.
HasTranslationWithFallback(st, key, locale, default) ==
    TranslateText(st, key, locale, EmptyDict, default) # Marker(key)

\* has_translation
HasTranslationOp(st, key, locale, default) ==
    LET target == LocaleOrDefault(locale, default)
        tables == LoadTranslationsOp(st, target).tr
    IN GetNestedValue(GetOrEmpty(tables, target), key) # NoneRet

----------------------------------------------------------------------------
(* EchoesService: the calls.                                               *)

SetDefaultLocale(value) ==
    /\ default_locale' = value
    /\ op' = Call("default_locale", <<value>>)
    /\ ret' = NoneRet
    /\ lookups' = <<>>
    /\ UNCHANGED <<svc_translations, loaded_locales, registered_modules,
                   registry_state>>

\* EchoesService.register_module_translations
RegisterServiceBundle(name, translations) ==
    /\ registered_modules' = registered_modules \cup {name}
    /\ svc_translations' =
          RegisterBundle(ServiceState, translations, DOMAIN translations).tr
    /\ loaded_locales' =
          RegisterBundle(ServiceState, translations, DOMAIN translations).loaded
    /\ op' = Call("register_module_translations", <<name, translations>>)
    /\ ret' = NoneRet
    /\ lookups' = <<>>
    /\ UNCHANGED <<default_locale, registry_state>>

Translate(key, locale, params) ==
    /\ svc_translations' = AfterTranslate(ServiceState, locale, default_locale).tr
    /\ loaded_locales' = AfterTranslate(ServiceState, locale, default_locale).loaded
    /\ op' = Call("translate", <<key, locale, params>>)
    /\ ret' = StrV(TranslateText(ServiceState, key, locale, params, default_locale))
    /\ lookups' = <<key>>
    /\ UNCHANGED <<default_locale, registered_modules, registry_state>>

TranslatePlural(key, count, locale, params) ==
    /\ svc_translations' = AfterTranslate(ServiceState, locale, default_locale).tr
    /\ loaded_locales' = AfterTranslate(ServiceState, locale, default_locale).loaded
    /\ op' = Call("translate_plural", <<key, count, locale, params>>)
    /\ ret' = StrV(PluralText(ServiceState, key, count, locale, params,
                              default_locale))
    /\ lookups' = PluralLookups(ServiceState, key, count, locale, params,
                                default_locale)
    /\ UNCHANGED <<default_locale, registered_modules, registry_state>>

HasTranslation(key, locale) ==
    /\ svc_translations' =
          LoadTranslationsOp(ServiceState, LocaleOrDefault(locale, default_locale)).tr
    /\ loaded_locales' =
          LoadTranslationsOp(ServiceState, LocaleOrDefault(locale, default_locale)).loaded
    /\ op' = Call("has_translation", <<key, locale>>)
    /\ ret' = BoolRet(HasTranslationOp(ServiceState, key, locale, default_locale))
    /\ lookups' = <<>>
    /\ UNCHANGED <<default_locale, registered_modules, registry_state>>

\* EchoesService.load_translations, called on its own
LoadTranslations(locale) ==
    /\ svc_translations' = LoadTranslationsOp(ServiceState, locale).tr
    /\ loaded_locales' = LoadTranslationsOp(ServiceState, locale).loaded
    /\ op' = Call("load_translations", <<locale>>)
    /\ ret' = NoneRet
    /\ lookups' = <<>>
    /\ UNCHANGED <<default_locale, registered_modules, registry_state>>

ClearCache ==
    /\ svc_translations' = EmptyDict
    /\ loaded_locales' = {}
    /\ op' = Call("clear_cache", <<>>)
    /\ ret' = NoneRet
    /\ lookups' = <<>>
    /\ UNCHANGED <<default_locale, registered_modules, registry_state>>

\* EchoesService.get_loaded_locales: list(self._loaded_locales), a list in
\* the order of the set, kept here as the set of its elements
GetLoadedLocales ==
    /\ op' = Call("get_loaded_locales", <<>>)
    /\ ret' = [kind |-> "locales", val |-> loaded_locales]
    /\ lookups' = <<>>
    /\ UNCHANGED <<service_vars, registry_state>>

\* EchoesService.get_registered_modules: list(self._registered_modules)
GetServiceModules ==
    /\ op' = Call("get_registered_modules", <<>>)
    /\ ret' = [kind |-> "names", val |-> registered_modules]
    /\ lookups' = <<>>
    /\ UNCHANGED <<service_vars, registry_state>>

\* _get_plural_form, called on its own
PluralForm(count, locale) ==
    /\ op' = Call("_get_plural_form", <<count, locale>>)
    /\ ret' = StrV(GetPluralForm(count, locale))
    /\ UNCHANGED <<lookups, service_vars, registry_state>>

\* _get_nested_value, called on its own
NestedValue(data, key) ==
    /\ op' = Call("_get_nested_value", <<data, key>>)
    /\ ret' = GetNestedValue(data, key)
    /\ UNCHANGED <<lookups, service_vars, registry_state>>

----------------------------------------------------------------------------
(* The state after import: the registry singleton and a fresh service.     *)

Init ==
    /\ modules = <<>>
    /\ merged_translations = EmptyDict
    /\ dirty = TRUE
    /\ svc_translations = EmptyDict
    /\ loaded_locales = {}
    /\ default_locale = en
    /\ registered_modules = {}
    /\ op = Call("init", <<>>)
    /\ ret = NoneRet
    /\ lookups = <<>>
    /\ rebuilds = 0
    /\ ops = 0
    /\ trip = NoTrip
    /\ threads = [th \in Threads |-> IdleThread]

ReadLocales == {en, pt, fr}

Next ==
    \/ \E name \in ModuleNames, path \in Paths : RegisterModule(name, path)
    \/ \E name \in ModuleNames, locale \in RegistryLocales, d \in InlineDicts :
          RegisterTranslations(name, locale, d)
    \/ \E name \in ModuleNames : UnregisterModule(name)
    \/ \E name \in ModuleNames : ReloadModule(name)
    \/ ReloadAll
    \/ \E locale \in ReadLocales : GetTranslations(locale)
    \/ GetAllTranslations
    \/ GetAvailableLocales
    \/ GetRegisteredModules

Spec == Init /\ [][Next]_vars

----------------------------------------------------------------------------
(* The service alone.                                                      *)

ServiceNext ==
    \/ \E value \in {en, fr} : SetDefaultLocale(value)
    \/ \E b \in ServiceBundles : RegisterServiceBundle("guardian", b)
    \/ \E key \in TranslateKeys, locale \in TranslateLocales :
          Translate(key, locale, EmptyDict)
    \/ \E key \in InterpolatedKeys, locale \in TranslateLocales,
          params \in TranslateParams :
          Translate(key, locale, params)
    \/ \E key \in PluralKeys, count \in 0..MaxPluralCount, locale \in PluralLocales,
          params \in PluralParams :
          TranslatePlural(key, count, locale, params)
    \/ \E key \in TranslateKeys, locale \in TranslateLocales : HasTranslation(key, locale)
    \/ \E locale \in LoadLocales : LoadTranslations(locale)
    \/ GetLoadedLocales
    \/ GetServiceModules
    \/ ClearCache

SpecService == Init /\ [][ServiceNext]_vars


----------------------------------------------------------------------------
(* The pure methods of the service, each over its inputs.                  *)

PluralNext ==
    \E count \in (-MaxNegCount)..MaxCount, locale \in FormLocales : PluralForm(count, locale)

SpecPlural == Init /\ [][PluralNext]_vars

LookupNext ==
    \E data \in LookupTrees, segs \in SeqsUpTo(LookupSegments, MaxSegments) :
        NestedValue(data, JoinDots(segs))

SpecLookup == Init /\ [][LookupNext]_vars

InterpolateNext ==
    \/ \E b \in TemplateBundles : RegisterServiceBundle("guardian", b)
    \/ \E params \in TemplateParams : Translate(TemplateKey, en, params)

SpecInterpolate == Init /\ [][InterpolateNext]_vars

----------------------------------------------------------------------------
(* The registry and a caller that writes to what get_all_translations      *)
(* returned.                                                               *)

CallerNext ==
    \/ \E name \in ModuleNames, path \in Paths : RegisterModule(name, path)
    \/ \E name \in ModuleNames, locale \in RegistryLocales, d \in InlineDicts :
          RegisterTranslations(name, locale, d)
    \/ \E locale \in ReadLocales : GetTranslations(locale)
    \/ GetAllTranslations
    \/ \E locale \in ReadLocales, key \in CallerKeys : CallerSetsKey(locale, key)
    \/ \E locale \in ReadLocales, key \in CallerKeys : CallerDeletesKey(locale, key)
    \/ \E locale \in ReadLocales : CallerSetsLocale(locale)

SpecCaller == Init /\ [][CallerNext]_vars

----------------------------------------------------------------------------
(* The registry shared by two reading threads and a registering thread.    *)

ThreadsNext ==
    \/ \E th \in Readers : ThreadCheckDirty(th)
    \/ \E th \in Readers : ThreadClear(th)
    \/ \E th \in Readers : ThreadStartLoop(th)
    \/ \E th \in Readers : ThreadLoop(th)
    \/ \E th \in Readers : ThreadMerge(th)
    \/ \E th \in Readers : ThreadMarkClean(th)
    \/ \E th \in Readers : ThreadReturn(th)
    \/ \E th \in Writers, name \in {"m1", "m2"}, d \in InlineDicts :
          ThreadWrite(th, name, d)
    \/ \E th \in Writers : ThreadMarkDirty(th)

SpecThreads == Init /\ [][ThreadsNext]_vars

----------------------------------------------------------------------------
(* Round trips of a source of the registry: the registry starts with the   *)
(* sources other modules have registered, and round trips are observed.    *)

StartRegistries ==
    { <<>>,
      RegisterTranslationsOp(<<>>, "m2", en, (k :> StrV(v1)) @@ (g :> DictV(t :> StrV(hi)))),
      RegisterTranslationsOp(RegisterModuleOp(<<>>, "m3", "p1"), "m2", en,
                             (k :> StrV(v2)) @@ (g :> DictV(u :> StrV(yo)))) }

InitRoundTrip ==
    /\ modules \in StartRegistries
    /\ merged_translations = EmptyDict
    /\ dirty = TRUE
    /\ svc_translations = EmptyDict
    /\ loaded_locales = {}
    /\ default_locale = en
    /\ registered_modules = {}
    /\ op = Call("init", <<>>)
    /\ ret = NoneRet
    /\ lookups = <<>>
    /\ rebuilds = 0
    /\ ops = 0
    /\ trip = IdleTrip
    /\ threads = [th \in Threads |-> IdleThread]

RoundTripNext ==
    \/ \E name \in ModuleNames, path \in Paths : RegisterModule(name, path)
    \/ \E name \in ModuleNames, locale \in RegistryLocales, d \in InlineDicts :
          RegisterTranslations(name, locale, d)
    \/ \E name \in ModuleNames : UnregisterModule(name)
    \/ \E locale \in ReadLocales : GetTranslations(locale)
    \/ GetAllTranslations

SpecRoundTrip == InitRoundTrip /\ [][RoundTripNext]_vars

----------------------------------------------------------------------------
(* The registry and the service side by side: sources are registered with  *)
(* the registry singleton and keys are translated by the service.          *)

RegistryKeys == {k, <<"g", ".", "t">>, <<"g", ".", "u">>}

StoreResolverNext ==
    \/ \E name \in ModuleNames, path \in Paths : RegisterModule(name, path)
    \/ \E name \in ModuleNames, locale \in RegistryLocales, d \in InlineDicts :
          RegisterTranslations(name, locale, d)
    \/ \E name \in ModuleNames, path \in {NoPath, "p1"}, b \in InlineBundles :
          RegisterModuleTranslations(name, path, b)
    \/ \E key \in RegistryKeys, locale \in {en, pt} : Translate(key, locale, EmptyDict)

SpecStoreResolver == Init /\ [][StoreResolverNext]_vars

----------------------------------------------------------------------------
(* The merged table, stated from the registered sources alone: a locale is *)
(* known when some source has it, and a key of the locale maps to the      *)
(* value of the last source, in the order of self._modules, that has it.   *)

Defines(mods, i, locale, key) ==
    /\ locale \in DOMAIN mods[i].translations
    /\ key \in DOMAIN mods[i].translations[locale]

ExpectedLocales(mods) == UNION {DOMAIN mods[i].translations : i \in 1..Len(mods)}

LastDefining(mods, locale, key) ==
    CHOOSE i \in 1..Len(mods) :
        /\ Defines(mods, i, locale, key)
        /\ \A j \in 1..Len(mods) : Defines(mods, j, locale, key) => j <= i

DefinedKeys(mods, locale) ==
    UNION {DOMAIN mods[i].translations[locale] :
              i \in {j \in 1..Len(mods) : locale \in DOMAIN mods[j].translations}}

ExpectedTable(mods, locale) ==
    [key \in DefinedKeys(mods, locale) |->
        mods[LastDefining(mods, locale, key)].translations[locale][key]]

\* C1, as stated: whenever source A precedes source B and both define a key
\* for a locale, get_translations(locale) maps the key to B's value.
C1_AnyLaterSourceWins ==
    op.name = "get_translations" =>
        \A i, j \in 1..Len(modules), key \in DefinedKeys(modules, op.args[1]) :
            (i < j /\ Defines(modules, i, op.args[1], key)
                   /\ Defines(modules, j, op.args[1], key))
            => ret.val[key] = modules[j].translations[op.args[1]][key]

\* C1, amended: whenever source A precedes source B, both define a key for a
\* locale and no source after B defines it, get_translations(locale) maps
\* the key to B's value, however many times the cache has been rebuilt.
C1_LastRegistrationWins ==
    op.name = "get_translations" =>
        \A i, j \in 1..Len(modules), key \in DefinedKeys(modules, op.args[1]) :
            (/\ i < j
             /\ Defines(modules, i, op.args[1], key)
             /\ Defines(modules, j, op.args[1], key)
             /\ \A l \in 1..Len(modules) :
                    l > j => ~Defines(modules, l, op.args[1], key))
            => /\ key \in DOMAIN ret.val
               /\ ret.val[key] = modules[j].translations[op.args[1]][key]

\* A read after the second rebuild in which a later source overrides an
\* earlier source's different value of the same key.
C1_Witness ==
    /\ op.name = "get_translations"
    /\ rebuilds >= 2
    /\ \E i, j \in 1..Len(modules) :
          /\ i < j
          /\ Defines(modules, i, op.args[1], k)
          /\ Defines(modules, j, op.args[1], k)
          /\ modules[i].translations[op.args[1]][k] # modules[j].translations[op.args[1]][k]
          /\ \A l \in 1..Len(modules) : l > j => ~Defines(modules, l, op.args[1], k)
          /\ ret.val[k] = modules[j].translations[op.args[1]][k]

\* C2: every read of the registry returns the registration-order merge of
\* the sources registered at that moment, and leaves the cache rebuilt.
C2_ReadsSeeCurrentSources ==
    /\ op.name = "get_translations" =>
          /\ ret.val = IF op.args[1] \in ExpectedLocales(modules)
                       THEN ExpectedTable(modules, op.args[1])
                       ELSE EmptyDict
          /\ ~dirty
    /\ op.name = "get_all_translations" =>
          /\ ret.val = [locale \in ExpectedLocales(modules) |->
                            ExpectedTable(modules, locale)]
          /\ ~dirty
    /\ op.name = "get_available_locales" =>
          /\ ret.val = ExpectedLocales(modules)
          /\ ~dirty

\* A read that found a cached entry of a source since removed or reloaded
\* away, and does not return it, while other sources stay registered.
C2_Witness ==
    /\ op.name = "get_translations"
    /\ modules # <<>>
    /\ op.args[1] \in DOMAIN op.before
    /\ \E key \in DOMAIN op.before[op.args[1]] : key \notin DOMAIN ret.val

----------------------------------------------------------------------------
(* A tree, stated as the set of its string leaves: <<path, text>> for each *)
(* string reached from the root through nested mappings only.              *)

RECURSIVE Leaves(_)
Leaves(d) ==
    UNION { IF d[key].kind = "str" THEN {<< <<key>>, d[key].val >>}
            ELSE IF d[key].kind = "dict"
                 THEN {<< <<key>> \o p[1], p[2] >> : p \in Leaves(d[key].val)}
            ELSE {}
          : key \in DOMAIN d }

HasLeaf(data, segs) == \E p \in Leaves(data) : p[1] = segs
LeafText(data, segs) == (CHOOSE p \in Leaves(data) : p[1] = segs)[2]

\* the service's table of a locale after the call, empty when it has none
TableOf(locale) ==
    IF locale \in DOMAIN svc_translations THEN svc_translations[locale] ELSE EmptyDict

\* the locale a service call resolved its locale argument to
TargetOf(locale) == IF locale = NoLocale THEN default_locale ELSE locale

\* what a key resolves to, target locale first and default locale second
ResolvesIn(key, locale) == HasLeaf(TableOf(locale), Split(key, "."))
Resolves(key, target) == ResolvesIn(key, target) \/ ResolvesIn(key, default_locale)
ResolvedText(key, target) ==
    IF ResolvesIn(key, target)
    THEN LeafText(TableOf(target), Split(key, "."))
    ELSE LeafText(TableOf(default_locale), Split(key, "."))

\* C3: a key the registry's merged table of a locale resolves to a string is
\* translated by the service to that string.
C3_TranslateSeesRegistry ==
    (/\ op.name = "translate"
     /\ op.args[2] \in ExpectedLocales(modules)
     /\ HasLeaf(ExpectedTable(modules, op.args[2]), Split(op.args[1], ".")))
    => ret.val = LeafText(ExpectedTable(modules, op.args[2]), Split(op.args[1], "."))

\* C4: translate without params returns the target locale's string leaf of
\* the key, else the default locale's, else "[" + key + "]".
C4_TargetThenDefaultThenMarker ==
    (op.name = "translate" /\ op.args[3] = EmptyDict) =>
        ret.val =
            IF ResolvesIn(op.args[1], TargetOf(op.args[2]))
            THEN LeafText(TableOf(TargetOf(op.args[2])), Split(op.args[1], "."))
            ELSE IF ResolvesIn(op.args[1], default_locale)
                 THEN LeafText(TableOf(default_locale), Split(op.args[1], "."))
            ELSE <<"[">> \o op.args[1] \o <<"]">>

\* translate for a locale that has no bundle at all returns the default
\* locale's string.
C4_Witness ==
    /\ op.name = "translate"
    /\ op.args = <<<<"d">>, xx, EmptyDict>>
    /\ xx \notin DOMAIN ServiceFiles
    /\ TableOf(xx) = EmptyDict
    /\ default_locale = en
    /\ ret.val = <<"D">>

\* C5: _get_nested_value returns the string at the dot-path when every
\* segment but the last names a nested mapping holding the next one and the
\* path ends at a string, and None in every other case.
C5_DotPathLookup ==
    op.name = "_get_nested_value" =>
        \A segs \in SeqsUpTo(LookupSegments, MaxSegments) :
            op.args[2] = JoinDots(segs) =>
                ret = IF HasLeaf(op.args[1], segs)
                      THEN StrV(LeafText(op.args[1], segs))
                      ELSE NoneRet

\* a.b.c is looked up where a.b is a string: not found.
C5_Witness ==
    /\ op.name = "_get_nested_value"
    /\ op.args[2] = <<"a", ".", "b", ".", "c">>
    /\ <<"a">> \in DOMAIN op.args[1]
    /\ op.args[1][<<"a">>].kind = "dict"
    /\ <<"b">> \in DOMAIN op.args[1][<<"a">>].val
    /\ op.args[1][<<"a">>].val[<<"b">>].kind = "str"
    /\ ret = NoneRet

\* str(value) of any parameter value, None included
PyStr(value) == IF value.kind = "null" THEN <<"N", "o", "n", "e">> ELSE StrOf(value)

\* a template with every placeholder whose name is in names replaced by the
\* string form of its parameter, and every other token as it stands
RECURSIVE Filled(_, _, _)
Filled(tokens, params, names) ==
    IF tokens = <<>> THEN <<>>
    ELSE (IF tokens[1].ph /\ tokens[1].text \in names
          THEN PyStr(params[tokens[1].text])
          ELSE Render(<<tokens[1]>>))
         \o Filled(Tail(tokens), params, names)

\* the template under TemplateKey in the en table is the rendering of tokens
IsTemplate(tokens) ==
    /\ TemplateKey \in DOMAIN TableOf(en)
    /\ TableOf(en)[TemplateKey].val = Render(tokens)

\* C6, as stated: every placeholder whose name is a key of params is
\* replaced by the string form of params[name], every other is left verbatim.
C6_EveryKeyOfParamsReplaced ==
    op.name = "translate" =>
        \A tokens \in SeqsUpTo(Tokens, MaxTokens) :
            IsTemplate(tokens) =>
                ret.val = Filled(tokens, op.args[3], DOMAIN op.args[3])

\* C6, amended: every placeholder whose name is a key of params with a value
\* other than None is replaced by the string form of that value; every
\* other placeholder is left verbatim, braces included; with empty params
\* the value is returned unchanged.
C6_NonNoneParamsReplaced ==
    op.name = "translate" =>
        \A tokens \in SeqsUpTo(Tokens, MaxTokens) :
            IsTemplate(tokens) =>
                /\ ret.val = Filled(tokens, op.args[3],
                                    {name \in DOMAIN op.args[3] :
                                        op.args[3][name].kind # "null"})
                /\ op.args[3] = EmptyDict => ret.val = Render(tokens)

\* A template with a placeholder that has a parameter and one that has none.
C6_Witness ==
    /\ op.name = "translate"
    /\ IsTemplate(<<Ph(<<"w">>), Ph(<<"n", "_", "1">>)>>)
    /\ op.args[3] = (<<"w">> :> StrV(<<"A">>))
    /\ ret.val = <<"A", "{", "n", "_", "1", "}">>

\* C7: translate_plural renders {count} with its count argument, whatever
\* params holds under "count".
C7_CountArgumentRendered ==
    (/\ op.name = "translate_plural"
     /\ Resolves(lookups[Len(lookups)], TargetOf(op.args[3])))
    => ret.val = Interpolate(ResolvedText(lookups[Len(lookups)], TargetOf(op.args[3])),
                                  SetItem(op.args[4], count_name, NumV(op.args[2])))

\* C8: for a locale whose primary subtag is fr, translate_plural looks up
\* {key}.one for count 0 and 1 and {key}.other for every other count.
C8_FrenchZeroIsOne ==
    (op.name = "translate_plural" /\ TargetOf(op.args[3]) \in {fr, fr_CA}) =>
        lookups[1] = op.args[1] \o <<".">>
                     \o (IF op.args[2] \in {0, 1} THEN one ELSE other)

\* C9: when the form selected is not "other" and {key}.{form} resolves in
\* neither the requested nor the default locale, translate_plural makes one
\* more call of translate, for {key}.other, and returns its result.
C9_RetryWithOther ==
    (/\ op.name = "translate_plural"
     /\ lookups[1] # op.args[1] \o <<".">> \o other
     /\ ~Resolves(lookups[1], TargetOf(op.args[3])))
    =>     /\ lookups = <<lookups[1], op.args[1] \o <<".">> \o other>>
           /\ ret.val =
                IF Resolves(lookups[2], TargetOf(op.args[3]))
                THEN Interpolate(ResolvedText(lookups[2], TargetOf(op.args[3])),
                                 AllParams(op.args[2], op.args[4]))
                ELSE <<"[">> \o lookups[2] \o <<"]">>

\* en, count 0, no i.zero but an i.other: the result is the .other text.
C9_Witness ==
    /\ op.name = "translate_plural"
    /\ op.args = <<<<"i">>, 0, en, EmptyDict>>
    /\ default_locale = en
    /\ lookups = << <<"i", ".", "z", "e", "r", "o">>, <<"i", ".", "o", "t", "h", "e", "r">> >>
    /\ ~Resolves(lookups[1], en)
    /\ ret.val = <<"0", " ", "i", "t", "s">>

\* C10: for ru and every count >= 1 the form is one when count%10 = 1 and
\* count%100 # 11, else few when 2 <= count%10 <= 4 and not
\* 12 <= count%100 <= 14, else many; other is never the form for ru.
C10_RussianForms ==
    (op.name = "_get_plural_form" /\ op.args[2] \in {ru, ru_RU}) =>
        /\ ret.val # other
        /\ op.args[1] >= 1 =>
              ret.val = IF op.args[1] % 10 = 1 /\ op.args[1] % 100 # 11 THEN one
                        ELSE IF /\ op.args[1] % 10 \in 2..4
                                /\ op.args[1] % 100 \notin 12..14
                             THEN few
                        ELSE many

\* 112 is in the excluded band of a later hundred: many.
C10_Witness ==
    /\ op.name = "_get_plural_form"
    /\ op.args = <<112, ru_RU>>
    /\ ret.val = many

\* C11: for ar and every count >= 0 the form is zero for 0, one for 1, two
\* for 2, else few when 3 <= count%100 <= 10, else many when
\* count%100 >= 11, else other.
C11_ArabicForms ==
    (op.name = "_get_plural_form" /\ op.args[2] \in {ar, ar_EG} /\ op.args[1] >= 0) =>
        ret.val = IF op.args[1] = 0 THEN zero
                  ELSE IF op.args[1] = 1 THEN one
                  ELSE IF op.args[1] = 2 THEN two
                  ELSE IF op.args[1] % 100 \in 3..10 THEN few
                  ELSE IF op.args[1] % 100 >= 11 THEN many
                  ELSE other

\* 102 is past the dual and its remainder is below the few band: other.
C11_Witness ==
    /\ op.name = "_get_plural_form"
    /\ op.args = <<102, ar_EG>>
    /\ ret.val = other

\* the part of a locale tag before its first "-"
PrimarySubtag(locale) ==
    LET n == CHOOSE i \in 0..Len(locale) :
                 /\ \A j \in 1..i : locale[j] # "-"
                 /\ i = Len(locale) \/ locale[i + 1] = "-"
    IN SubSeq(locale, 1, n)

\* C12: for a locale whose primary subtag is not fr, ru or ar the form is
\* zero for 0, one for 1 and other for every other count; and the form of
\* any locale is the form of its primary subtag alone.
C12_DefaultFormsAndRegion ==
    (op.name = "_get_plural_form") =>
        /\ PrimarySubtag(op.args[2]) \notin {fr, ru, ar} =>
              ret.val = IF op.args[1] = 0 THEN zero
                        ELSE IF op.args[1] = 1 THEN one
                        ELSE other
        /\ ret.val = GetPluralForm(op.args[1], PrimarySubtag(op.args[2]))

\* ru-RU, count 5: the Russian rule of ru applies, not the default one.
C12_Witness ==
    /\ op.name = "_get_plural_form"
    /\ op.args = <<5, ru_RU>>
    /\ PrimarySubtag(ru_RU) = ru
    /\ ret.val = many
    /\ GetPluralForm(5, en_US) = other

\* C13: has_translation is true exactly when the key resolves to a string
\* leaf in the table of the requested locale (the default locale when none
\* is given); the default locale is not a fallback, although translate
\* returns the default locale's string for such a key.
C13_HasTranslationExactLocale ==
    (op.name = "has_translation") =>
        /\ ret.val = ResolvesIn(op.args[1], TargetOf(op.args[2]))
        /\ (~ret.val /\ ResolvesIn(op.args[1], default_locale)) =>
              TranslateText(ServiceState, op.args[1], op.args[2], EmptyDict,
                            default_locale)
                = LeafText(TableOf(default_locale), Split(op.args[1], "."))

\* "d" is a string of en, the default locale, and of no fr bundle:
\* has_translation("d", "fr") is False.
C13_Witness ==
    /\ op.name = "has_translation"
    /\ op.args = <<<<"d">>, fr>>
    /\ default_locale = en
    /\ ResolvesIn(<<"d">>, en)
    /\ ~ResolvesIn(<<"d">>, fr)
    /\ ret.val = FALSE

\* the string leaves of a source's tree of a locale
SourceLeaves(mods, i, locale) ==
    IF locale \in DOMAIN mods[i].translations
    THEN Leaves(mods[i].translations[locale])
    ELSE {}

\* two paths of which one leads through, or to, the other
SamePathOrUnder(p, q) ==
    \/ (Len(p) <= Len(q) /\ SubSeq(q, 1, Len(p)) = p)
    \/ (Len(q) <= Len(p) /\ SubSeq(p, 1, Len(q)) = q)

\* C14: a dotted key that is a string leaf of some source's tree of a locale,
\* and that no later source defines, resolves to the same string in the
\* table get_translations returns for the locale.
C14_LeafUnion ==
    op.name = "get_translations" =>
        \A i \in 1..Len(modules) :
            \A p \in SourceLeaves(modules, i, op.args[1]) :
                (\A j \in (i + 1)..Len(modules) :
                    \A q \in SourceLeaves(modules, j, op.args[1]) :
                        ~SamePathOrUnder(p[1], q[1]))
                => /\ HasLeaf(ret.val, p[1])
                   /\ LeafText(ret.val, p[1]) = p[2]

\* C15, as stated: after a source is registered from a path, unregistered
\* and registered again under the same name with the same path, while the
\* other sources stay as they are, get_all_translations returns the tables
\* it returned after the first of these registrations.
C15_AnyRoundTrip ==
    (trip.stage = "done" /\ op.name = "get_all_translations") =>
        ret.val = trip.tables

\* C15, amended: the same, for a source that was not registered when the
\* first of these registrations was made.
C15_NewSourceRoundTrip ==
    (trip.stage = "done" /\ trip.new /\ op.name = "get_all_translations") =>
        ret.val = trip.tables

\* A finished round trip of a source loaded from p1, beside another source
\* that has a different value of k for en: the file's value is back.
C15_Witness ==
    /\ trip.stage = "done"
    /\ trip.new
    /\ op.name = "get_all_translations"
    /\ trip.path = "p1"
    /\ modules[Len(modules)].module_name = trip.name
    /\ \E i \in 1..(Len(modules) - 1) :
          /\ Defines(modules, i, en, k)
          /\ modules[i].translations[en][k] # StrV(f1)
    /\ ret.val[en][k] = StrV(f1)
    /\ ret.val = trip.tables

CallerWrites == {"caller_sets_key", "caller_deletes_key", "caller_sets_locale"}

\* C16: a write of the caller to the mapping get_all_translations returned,
\* or to a per-locale tree inside it, does not change what the next
\* get_translations or get_all_translations returns: it is what the cache
\* held before the write.
C16_ReturnedCopyIsDefensive ==
    [][ (op.name \in CallerWrites) =>
            /\ op'.name = "get_translations" =>
                  ret'.val = GetOrEmpty(op.before, op'.args[1])
            /\ op'.name = "get_all_translations" => ret'.val = op.before ]_vars

\* C17: when {key}.{form} resolves to a string in the requested or the
\* default locale, translate_plural calls translate once and returns that
\* string, interpolated, whatever it begins with.
C17_NoRetryWhenResolved ==
    (/\ op.name = "translate_plural"
     /\ Resolves(lookups[1], TargetOf(op.args[3])))
    =>  /\ Len(lookups) = 1
        /\ ret.val = Interpolate(ResolvedText(lookups[1], TargetOf(op.args[3])),
                                 AllParams(op.args[2], op.args[4]))


\* the table of a locale as the registered sources define it
TableFromSources(mods, locale) ==
    IF locale \in ExpectedLocales(mods) THEN ExpectedTable(mods, locale) ELSE EmptyDict

\* C18: the registry has no lock. While no call of one thread has
\* overlapped a call of another, every get_translations returns the table
\* rebuilt from all the registered sources, and a clean cache between calls
\* is that table. (That overlapping calls can return a partly rebuilt table
\* and can lose a dirty mark is shown by the state C18_Witness describes.)
C18_SerializedReadsAreFull ==
    ~Raced =>
        /\ (op.name = "get_translations" /\ Len(op.args) = 2) =>
              ret = DictV(TableFromSources(modules, op.args[1]))
        /\ ((\A th \in Threads : ~Busy(th)) /\ ~dirty) =>
              GetOrEmpty(merged_translations, en) = TableFromSources(modules, en)

\* Calls have overlapped: one thread's get_translations returned, while
\* another thread was rebuilding, a table without keys that were registered
\* before that call began; and now no call is running, the cache is marked
\* clean although it is not the table of the registered sources, and the
\* get_translations that has just returned handed out that table.
C18_Witness ==
    /\ Raced
    /\ \A th \in Threads : ~Busy(th)
    /\ ~dirty
    /\ GetOrEmpty(merged_translations, en) # TableFromSources(modules, en)
    /\ \E th \in Readers : threads[th].torn
    /\ op.name = "get_translations"
    /\ ret.kind = "dict"
    /\ ret.val # TableFromSources(modules, en)

\* the names of the registered sources, in the order of the merge
Names(mods) == [i \in 1..Len(mods) |-> mods[i].module_name]
IsRegistered(mods, name) == \E i \in 1..Len(mods) : mods[i].module_name = name

\* C19: register_module and register_translations put a name that is not
\* registered at the end of the merge order and leave the order as it is
\* for a name that is registered; reload_module and reload_all leave the
\* order as it is; unregister_module takes the name out and leaves the
\* others in their order. A get_translations that follows such a call
\* returns, for a key that the source just written to and a later source
\* both define, the value of the last source that defines it.
C19_UpdatesKeepOrder ==
    [][ /\ op'.name \in {"register_module", "register_translations"} =>
              Names(modules') = IF IsRegistered(modules, op'.args[1])
                                THEN Names(modules)
                                ELSE Append(Names(modules), op'.args[1])
        /\ op'.name \in {"reload_module", "reload_all"} =>
              Names(modules') = Names(modules)
        /\ op'.name = "unregister_module" =>
              Names(modules') =
                  SelectSeq(Names(modules), LAMBDA n : n # op'.args[1])
        /\ (/\ op.name \in {"register_module", "register_translations", "reload_module"}
            /\ op'.name = "get_translations") =>
              \A i, j \in 1..Len(modules) :
                  \A key \in DefinedKeys(modules, op'.args[1]) :
                      (/\ modules[i].module_name = op.args[1]
                       /\ i < j
                       /\ Defines(modules, i, op'.args[1], key)
                       /\ j = LastDefining(modules, op'.args[1], key))
                      => ret'.val[key] = modules[j].translations[op'.args[1]][key]
      ]_vars

\* The first of two sources has just been written to by
\* register_translations, both define k for en with different values, and
\* it is still the first.
C19_Witness ==
    /\ op.name = "register_translations"
    /\ Len(modules) >= 2
    /\ op.args[1] = modules[1].module_name
    /\ Defines(modules, 1, en, k)
    /\ Defines(modules, 2, en, k)
    /\ modules[1].translations[en][k] # modules[2].translations[en][k]

====
